---- MODULE Spec2Model ----
(***************************************************************************)
(* Browser-side model of sistema-inventario's front end: the login page    *)
(* script (simulated and API versions) and the admin "create user" page    *)
(* script, sharing one localStorage.                                       *)
(*                                                                         *)
(* Strings the scripts inspect character by character (form fields) are    *)
(* sequences of one-character strings; strings that are only stored,       *)
(* compared or displayed are TLA+ strings.  A JavaScript object is a       *)
(* function from the names of its defined properties to their values.      *)
(***************************************************************************)
EXTENDS Integers, Sequences, FiniteSets, TLC

\* ------------------------------------------------------------------ bounds
\* Number of blanks the user may type before and after a field's text.
MaxPad == 1
\* Number of requests (or simulated waits) the model lets be in flight.
MaxPending == 2
\* Number of dashboard redirect timers the model lets be scheduled.
MaxTimers == 2

\* ------------------------------------------------------------- JS strings
WS == {" ", "\t", "\n"}

RECURSIVE trimStart(_)
trimStart(s) ==
  IF s # <<>> /\ Head(s) \in WS THEN trimStart(Tail(s)) ELSE s

RECURSIVE trimEnd(_)
trimEnd(s) ==
  IF s # <<>> /\ s[Len(s)] \in WS THEN trimEnd(SubSeq(s, 1, Len(s) - 1)) ELSE s

\* String.prototype.trim
trim(s) == trimEnd(trimStart(s))

lowerChar(c) == IF c = "A" THEN "a" ELSE IF c = "K" THEN "k" ELSE c

\* String.prototype.toLowerCase (on the alphabet the inputs use)
toLowerCase(s) == [i \in 1..Len(s) |-> lowerChar(s[i])]

\* [^\s@]+ on s[from..to]
plainRun(s, from, to) ==
  /\ from <= to
  /\ \A k \in from..to : s[k] \notin WS \cup {"@"}

\* /^[^\s@]+@[^\s@]+\.[^\s@]+$/.test(value)
isValidEmail(value) ==
  \E i, j \in 1..Len(value) :
    /\ value[i] = "@"
    /\ value[j] = "."
    /\ plainRun(value, 1, i - 1)
    /\ plainRun(value, i + 1, j - 1)
    /\ plainRun(value, j + 1, Len(value))

\* !payload.name || payload.name.length < 2
nameInvalid(name) == name = <<>> \/ Len(name) < 2

\* !pVal || pVal.length < 6
passwordInvalid(p) == p = <<>> \/ Len(p) < 6

\* ------------------------------------------------------------- JS objects
Undefined == "<undefined>"
EmptyObj == [k \in {} |-> Undefined]
HasKey(o, k) == k \in DOMAIN o
Get(o, k) == IF k \in DOMAIN o THEN o[k] ELSE Undefined
\* a string value is truthy unless undefined or empty
Truthy(v) == v # Undefined /\ v # ""

\* JSON.parse / res.json() results that are not objects
Null == [null |-> TRUE]
Unparsable == [unparsable |-> TRUE]

\* ------------------------------------------------------------------ pages
LoginPage == "./login.html"
DashboardPage == "./dashboard.html"
AdminPage == "./admin_users.html"
NoNavigation == ""

Roles == {"user", "admin"}

\* field text as typed by the user: a core with n blanks on each side
Pad(n) == [i \in 1..n |-> " "]
Padded(cores) == {Pad(n) \o c \o Pad(n) : n \in 0..MaxPad, c \in cores}

demoEmail == <<"k","e","v","i","n","@","t","e","s","t",".","c","o","m">>
demoPass == <<"1","2","3","4","5","6">>

LoginEmailInputs ==
  Padded({demoEmail, <<"a","@","b",".","c">>, <<"a"," ","@","b",".","c">>})
AdminEmailInputs == Padded({<<"A","@","b",".","c">>, <<"a","@","b">>})
LoginPasswordInputs ==
  {<<>>, <<"1","2","3","4","5">>, demoPass, <<"6","5","4","3","2","1">>}
AdminPasswordInputs == {<<"1","2","3","4","5">>, demoPass}
NameInputs == Padded({<<"a">>, <<"a","b">>})

\* ----------------------------------------------------------------- server
OkStatus(status) == status >= 200 /\ status <= 299

AdminStatuses == {201, 204, 400, 401}
AdminBodies ==
  { Unparsable, Null, EmptyObj,
    [detail |-> "Email ya registrado"],
    [email |-> "a@b.c", role |-> "user"] }
AdminResponses == [status : AdminStatuses, body : AdminBodies]

LoginStatuses == {200, 401}
LoginUsers ==
  { [name |-> "Ana", email |-> "a@b.c", role |-> "admin"],
    [name |-> "Ana", email |-> "a@b.c", role |-> "user"] }
LoginBodies ==
  { Unparsable, Null, EmptyObj,
    [detail |-> "Credenciales invalidas"],
    [detail |-> ""],
    [token |-> "jwt"],
    [user |-> [name |-> "Ana", email |-> "a@b.c", role |-> "user"]] }
  \cup {[token |-> "jwt", user |-> u] : u \in LoginUsers}
LoginResponses == [status : LoginStatuses, body : LoginBodies]

\* ------------------------------------------------------------------ state
VARIABLES
  localStorage,   \* browser local storage: a function on a subset of {"session"}
  loginVersion,   \* which login script login.html carries: "sim" or "api"
  page,           \* the document the browser shows
  script,         \* that document's script: "loading", "running" or "aborted"
  location,       \* window.location.href as last assigned by the script
  alerted,        \* alert() was called by this document
  session,        \* admin_users.js: const session
  admForm,        \* admin form fields: nameEl, emailEl, passEl, roleEl values
  admErr,         \* nameErr, emailErr, passErr text
  msg,            \* admin message area: className and textContent
  btn,            \* admin submit button: disabled
  admPending,     \* requests of apiFetch("/admin/users") not yet settled
  loginErr,       \* emailError, passError text
  formMsg,        \* login message area: textContent, style.display, class ok
  btnLogin,       \* login submit button: disabled
  loginPending,   \* login submissions suspended at their await
  timers          \* scheduled setTimeout(redirect to dashboard, 500)

vars ==
  << localStorage, loginVersion, page, script, location, alerted,
     session, admForm, admErr, msg, btn, admPending,
     loginErr, formMsg, btnLogin, loginPending, timers >>

browserVars == << loginVersion >>
admDom == << admForm, admErr, msg, btn, admPending >>
loginDom == << loginErr, formMsg, btnLogin, loginPending, timers >>

\* ---------------------------------------------------------- fresh documents
NoText == <<>>
\* The role <select>'s default option is set by the page's HTML, which is not
\* among the sources; the model takes the option other than "user", so that
\* roleEl.value = "user" after form.reset() is observable.
RoleDefault == "admin"
AdmFormDefault ==
  [name |-> <<>>, email |-> <<>>, password |-> <<>>, role |-> RoleDefault]
AdmErrDefault == [name |-> "", email |-> "", pass |-> ""]
MsgDefault == [className |-> "msg", text |-> NoText]
LoginErrDefault == [email |-> "", pass |-> ""]
FormMsgDefault == [text |-> "", display |-> "none", ok |-> FALSE]

\* the state of a document whose script has not run yet
FreshDocument ==
  /\ script' = "loading"
  /\ location' = NoNavigation
  /\ alerted' = FALSE
  /\ session' = Null
  /\ admForm' = AdmFormDefault
  /\ admErr' = AdmErrDefault
  /\ msg' = MsgDefault
  /\ btn' = FALSE
  /\ admPending' = <<>>
  /\ loginErr' = LoginErrDefault
  /\ formMsg' = FormMsgDefault
  /\ btnLogin' = FALSE
  /\ loginPending' = <<>>
  /\ timers' = 0

Init ==
  /\ localStorage = EmptyObj
  /\ loginVersion \in {"sim", "api"}
  /\ page \in {LoginPage, AdminPage}
  /\ script = "loading"
  /\ location = NoNavigation
  /\ alerted = FALSE
  /\ session = Null
  /\ admForm = AdmFormDefault
  /\ admErr = AdmErrDefault
  /\ msg = MsgDefault
  /\ btn = FALSE
  /\ admPending = <<>>
  /\ loginErr = LoginErrDefault
  /\ formMsg = FormMsgDefault
  /\ btnLogin = FALSE
  /\ loginPending = <<>>
  /\ timers = 0

\* ------------------------------------------------------------ localStorage
getItem(ls, k) == IF k \in DOMAIN ls THEN ls[k] ELSE Null
removeItem(ls, k) == [x \in DOMAIN ls \ {k} |-> ls[x]]
setItem(ls, k, v) == [x \in DOMAIN ls \cup {k} |-> IF x = k THEN v ELSE ls[x]]

\* JSON.stringify of the login script's session object: a property whose
\* value is undefined is left out of the text
JSONStringify(o) ==
  [k \in {x \in DOMAIN o : x # "token" \/ o[x] # Undefined} |-> o[k]]

\* JSON.parse of a stored text
JSONParse(raw) == raw

\* =========================================================== admin_users.js
needsLoginMutant(s) == TRUE

\* !session || !session.token
needsLogin(s) == s = Null \/ ~Truthy(Get(s, "token"))

\* session.user?.role === "admin"
isAdmin(s) == HasKey(s, "user") /\ Get(s["user"], "role") = "admin"

\* the page script, top to bottom
AdminLoad ==
  /\ page = AdminPage
  /\ script = "loading"
  /\ LET sessionRaw == getItem(localStorage, "session")
         s == IF sessionRaw # Null THEN JSONParse(sessionRaw) ELSE Null
     IN
       /\ session' = s
          \* goLogin()
       /\ localStorage' =
            IF needsLogin(s) THEN removeItem(localStorage, "session")
            ELSE localStorage
       /\ IF s = Null
          THEN \* session.user throws a TypeError: the script stops here
               /\ script' = "aborted"
               /\ location' = LoginPage
               /\ alerted' = alerted
          ELSE /\ script' = "running"
               /\ alerted' = (alerted \/ ~isAdmin(s))
               /\ location' =
                    IF ~isAdmin(s) THEN DashboardPage
                    ELSE IF needsLogin(s) THEN LoginPage
                    ELSE location
  /\ UNCHANGED << browserVars, page, admDom, loginDom >>

\* logoutBtn click: goLogin
Logout ==
  /\ page = AdminPage
  /\ script = "running"
  /\ localStorage' = removeItem(localStorage, "session")
  /\ location' = LoginPage
  /\ UNCHANGED << browserVars, page, script, alerted, session, admDom, loginDom >>

showMsg(type, text) ==
  [className |-> IF type = "ok" THEN "msg ok" ELSE "msg bad", text |-> text]

setLoadingMutant(on) == FALSE

\* btn.disabled = on (both scripts; the label follows the flag)
setLoading(on) == on

admValidMutant(payload) ==
  ~nameInvalid(payload.name) /\ ~passwordInvalid(payload.password)

\* let ok = true; ... ok = false; ... if (!ok) return;
admValid(payload) ==
  /\ ~nameInvalid(payload.name)
  /\ isValidEmail(payload.email)
  /\ ~passwordInvalid(payload.password)

\* form submit, up to the await of apiFetch
AdminSubmit(n, e, p, r) ==
  /\ page = AdminPage
  /\ script = "running"
  /\ ~btn
  /\ Len(admPending) < MaxPending
  /\ LET payload ==
           [name |-> trim(n), email |-> toLowerCase(trim(e)),
            password |-> p, role |-> r]
     IN
       /\ admForm' = [name |-> n, email |-> e, password |-> p, role |-> r]
       /\ msg' = MsgDefault
       /\ admErr' =
            [name |-> IF nameInvalid(payload.name)
                      THEN "Nombre invalido (min 2 caracteres)." ELSE "",
             email |-> IF ~isValidEmail(payload.email)
                       THEN "Email invalido." ELSE "",
             pass |-> IF passwordInvalid(payload.password)
                      THEN "Contrasena invalida (min 6 caracteres)." ELSE ""]
       /\ IF admValid(payload)
          THEN /\ btn' = setLoading(TRUE)
               /\ admPending' =
                    Append(admPending,
                           [path |-> "/admin/users", method |-> "POST",
                            bearer |-> Get(session, "token"), body |-> payload])
          ELSE UNCHANGED << btn, admPending >>
  /\ UNCHANGED << localStorage, browserVars, page, script, location, alerted,
                  session, loginDom >>

unauthorizedMutant(res) == res.status = 403

\* res.status === 401
unauthorized(res) == res.status = 401

\* what apiFetch returns for a response
apiFetch(res) ==
  IF res.status = 204 THEN [ok |-> TRUE, status |-> 204, data |-> Null]
  ELSE [ok |-> OkStatus(res.status), status |-> res.status,
        data |-> IF res.body = Unparsable THEN Null ELSE res.body]

\* r.data?.detail || `No se pudo crear (${r.status})`
admFailText(r) ==
  IF Truthy(Get(r.data, "detail")) THEN << r.data.detail >>
  ELSE << "No se pudo crear", ToString(r.status) >>

\* fetch resolves: the rest of apiFetch, then the rest of the submit handler
AdminResponds(res) ==
  /\ page = AdminPage
  /\ admPending # <<>>
  /\ admPending' = Tail(admPending)
  /\ IF unauthorized(res)
     THEN /\ localStorage' = removeItem(localStorage, "session")
          /\ location' = LoginPage
     ELSE UNCHANGED << localStorage, location >>
  /\ btn' = setLoading(FALSE)
  /\ LET r == apiFetch(res) IN
       IF ~r.ok
       THEN /\ msg' = showMsg("bad", admFailText(r))
            /\ UNCHANGED admForm
       ELSE IF r.data = Null
       THEN \* r.data.email throws a TypeError: the handler stops here
            UNCHANGED << msg, admForm >>
       ELSE /\ msg' = showMsg("ok", << "Usuario creado", Get(r.data, "email"),
                                       Get(r.data, "role") >>)
            /\ admForm' = [AdmFormDefault EXCEPT !.role = "user"]
  /\ UNCHANGED << browserVars, page, script, alerted, session, admErr, loginDom >>

\* fetch rejects: apiFetch and the submit handler both end with the exception
AdminRejects ==
  /\ page = AdminPage
  /\ admPending # <<>>
  /\ admPending' = Tail(admPending)
  /\ UNCHANGED << localStorage, browserVars, page, script, location, alerted,
                  session, admForm, admErr, msg, btn, loginDom >>

\* ================================================================= login.js
\* (two versions of the same script: the simulated login and the API login)
LoginLoad ==
  /\ page = LoginPage
  /\ script = "loading"
  /\ script' = "running"
  /\ UNCHANGED << localStorage, browserVars, page, location, alerted, session,
                  admDom, loginDom >>

loginValid(eVal, pVal) == isValidEmail(eVal) /\ ~passwordInvalid(pVal)

\* form submit, up to the await
LoginSubmit(e, p) ==
  /\ page = LoginPage
  /\ script = "running"
  /\ ~btnLogin
  /\ Len(loginPending) < MaxPending
  /\ timers < MaxTimers
  /\ LET eVal == trim(e)
         pVal == p
     IN
       /\ formMsg' = FormMsgDefault
       /\ loginErr' =
            [email |-> IF ~isValidEmail(eVal)
                       THEN "Ingresa un email valido." ELSE "",
             pass |-> IF passwordInvalid(pVal)
                      THEN "La contrasena debe tener al menos 6 caracteres."
                      ELSE ""]
       /\ IF loginValid(eVal, pVal)
          THEN /\ btnLogin' = setLoading(TRUE)
               /\ loginPending' =
                    Append(loginPending, [email |-> eVal, password |-> pVal])
          ELSE UNCHANGED << btnLogin, loginPending >>
  /\ UNCHANGED << localStorage, browserVars, page, script, location, alerted,
                  session, admDom, timers >>

\* messages of the exceptions the engine itself throws (engine's wording)
SyntaxErrorMessage == "Unexpected end of JSON input"
TypeErrorMessage == "Cannot read properties of null"
FetchErrorMessage == "Failed to fetch"
BadCredentials == "Email o contrasena incorrectos."

\* catch (err): err.message || "No se pudo iniciar sesion."
catchText(message) ==
  IF message # "" THEN message ELSE "No se pudo iniciar sesion."

\* the catch block followed by the finally block
LoginFails(message) ==
  /\ formMsg' = [formMsg EXCEPT !.text = catchText(message), !.display = "block"]
  /\ btnLogin' = setLoading(FALSE)
  /\ UNCHANGED << localStorage, timers >>

\* the rest of the try block followed by the finally block
LoginSucceeds(sessionObj) ==
  /\ localStorage' = setItem(localStorage, "session", JSONStringify(sessionObj))
  /\ formMsg' = [text |-> "Login correcto! Redirigiendo...", ok |-> TRUE,
                 display |-> "block"]
  /\ timers' = timers + 1
  /\ btnLogin' = setLoading(FALSE)

demoMatchMutant(s) == s.email = demoEmail

\* !(eVal !== demoEmail || pVal !== demoPass)
demoMatch(s) == ~(s.email # demoEmail \/ s.password # demoPass)

\* simulated login: the 600 ms wait is over
LoginSimWaitDone(remember) ==
  /\ page = LoginPage
  /\ loginVersion = "sim"
  /\ loginPending # <<>>
  /\ loginPending' = Tail(loginPending)
  /\ LET s == Head(loginPending) IN
       IF ~demoMatch(s)
       THEN LoginFails(BadCredentials)
       ELSE LoginSucceeds(
              [token |-> "demo_token_123",
               user |-> [name |-> "Kevin", email |-> s.email, role |-> "admin"],
               remember |-> remember])
  /\ UNCHANGED << browserVars, page, script, location, alerted, session,
                  admDom, loginErr >>

\* { token: data.token, user: data.user, remember: remember.checked }
apiSession(data, remember) ==
  [k \in {"token", "remember"} \cup ({"user"} \cap DOMAIN data) |->
     IF k = "token" THEN Get(data, "token")
     ELSE IF k = "remember" THEN remember
     ELSE data[k]]

\* API login: fetch resolves
LoginApiResponds(res, remember) ==
  /\ page = LoginPage
  /\ loginVersion = "api"
  /\ loginPending # <<>>
  /\ loginPending' = Tail(loginPending)
  /\ IF res.body = Unparsable
     THEN \* res.json() rejects
          LoginFails(SyntaxErrorMessage)
     ELSE IF res.body = Null
     THEN \* data.detail or data.token throws
          LoginFails(TypeErrorMessage)
     ELSE IF ~OkStatus(res.status)
     THEN LoginFails(IF Truthy(Get(res.body, "detail")) THEN res.body.detail
                     ELSE BadCredentials)
     ELSE LoginSucceeds(apiSession(res.body, remember))
  /\ UNCHANGED << browserVars, page, script, location, alerted, session,
                  admDom, loginErr >>

\* API login: fetch rejects
LoginApiRejects ==
  /\ page = LoginPage
  /\ loginVersion = "api"
  /\ loginPending # <<>>
  /\ loginPending' = Tail(loginPending)
  /\ LoginFails(FetchErrorMessage)
  /\ UNCHANGED << browserVars, page, script, location, alerted, session,
                  admDom, loginErr >>

\* setTimeout(() => { window.location.href = "./dashboard.html"; }, 500)
RedirectTimerFires ==
  /\ page = LoginPage
  /\ timers > 0
  /\ timers' = timers - 1
  /\ location' = DashboardPage
  /\ UNCHANGED << localStorage, browserVars, page, script, alerted, session,
                  admDom, loginErr, formMsg, btnLogin, loginPending >>

\* ================================================================== browser
\* the navigation started by assigning window.location.href completes
NavigationComplete ==
  /\ location # NoNavigation
  /\ page' = location
  /\ FreshDocument
  /\ UNCHANGED << localStorage, browserVars >>

\* the user opens a page of the application by its address
OpenPage(p) ==
  /\ page' = p
  /\ FreshDocument
  /\ UNCHANGED << localStorage, browserVars >>

Next ==
  \/ AdminLoad
  \/ Logout
  \/ \E n \in NameInputs, e \in AdminEmailInputs, p \in AdminPasswordInputs, r \in Roles :
       AdminSubmit(n, e, p, r)
  \/ \E res \in AdminResponses : AdminResponds(res)
  \/ AdminRejects
  \/ LoginLoad
  \/ \E e \in LoginEmailInputs, p \in LoginPasswordInputs : LoginSubmit(e, p)
  \/ \E remember \in BOOLEAN : LoginSimWaitDone(remember)
  \/ \E res \in LoginResponses, remember \in BOOLEAN : LoginApiResponds(res, remember)
  \/ LoginApiRejects
  \/ RedirectTimerFires
  \/ NavigationComplete
  \/ \E p \in {LoginPage, AdminPage} : OpenPage(p)

Spec == Init /\ [][Next]_vars

\* =================================================================== claims
EmailRegexFails(value) ==
  ~ \E i, j \in 1..Len(value) :
      /\ value[i] = "@" /\ value[j] = "."
      /\ i > 1 /\ j > i + 1 /\ j < Len(value)
      /\ \A k \in 1..Len(value) : k # i => value[k] \notin WS \cup {"@"}
TooShort(value, n) == Len(value) < n
StoredSession == getItem(localStorage, "session")
HasToken(s) == s # Null /\ "token" \in DOMAIN s /\ s.token # ""
RoleIsAdmin(s) ==
  s # Null /\ "user" \in DOMAIN s /\ "role" \in DOMAIN s.user /\ s.user.role = "admin"
SessionCleared == "session" \notin DOMAIN localStorage

\* C1: on both forms the submit control is busy while a request is pending
\* and idle again once the request has settled, whatever the outcome.
C1_BusyExactlyWhilePending ==
  /\ (page = AdminPage /\ script = "running") => (btn <=> admPending # <<>>)
  /\ (page = LoginPage /\ script = "running") => (btnLogin <=> loginPending # <<>>)

\* C2: an admin page load with no stored session or a tokenless one removes
\* the session key, leaves the login page as navigation target and raises no
\* alert.
C2_TokenlessLoadGoesToLogin ==
  [][(AdminLoad /\ ~HasToken(StoredSession))
       => (SessionCleared' /\ location' = LoginPage /\ ~alerted')]_vars

\* C3: every successful create-user response (a 2xx with a JSON object body,
\* or a 204) ends with the confirmation shown and the form reset with the
\* role selector on "user".
C3_SuccessShowsConfirmation ==
  [][\A res \in AdminResponses :
       (/\ AdminResponds(res)
        /\ \/ res.status = 204
           \/ OkStatus(res.status) /\ res.body \notin {Unparsable, Null})
       => (/\ msg'.className = "msg ok"
           /\ msg'.text # NoText
           /\ admForm' = [name |-> <<>>, email |-> <<>>, password |-> <<>>,
                          role |-> "user"])]_vars

\* the step is a submission of the admin form as the fields now read
SubmittedAdminForm ==
  AdminSubmit(admForm'.name, admForm'.email, admForm'.password, admForm'.role)

AbortedAdmin(n, e, p) ==
  /\ admPending' = admPending
  /\ ~btn'
  /\ localStorage' = localStorage
  /\ (TooShort(trim(n), 2) => admErr'.name # "")
  /\ (EmailRegexFails(trim(e)) => admErr'.email # "")
  /\ (TooShort(p, 6) => admErr'.pass # "")

AbortedLogin(e, p) ==
  /\ loginPending' = loginPending
  /\ ~btnLogin'
  /\ localStorage' = localStorage
  /\ (EmailRegexFails(trim(e)) => loginErr'.email # "")
  /\ (TooShort(p, 6) => loginErr'.pass # "")

\* C4: on both forms a submission with an invalid field (email, as the
\* handler reads it, not matching the pattern; password empty or shorter than
\* 6; on the admin form, trimmed name shorter than 2) is aborted: the error
\* of each invalid field is set, no request is sent, the submit control does
\* not become busy and the stored session is unchanged.
C4_InvalidFieldAborts ==
  [][/\ (/\ SubmittedAdminForm
         /\ \/ EmailRegexFails(trim(admForm'.email))
            \/ TooShort(admForm'.password, 6)
            \/ TooShort(trim(admForm'.name), 2))
        => AbortedAdmin(admForm'.name, admForm'.email, admForm'.password)
     /\ \A e \in LoginEmailInputs, p \in LoginPasswordInputs :
          (LoginSubmit(e, p) /\ (EmailRegexFails(trim(e)) \/ TooShort(p, 6)))
          => AbortedLogin(e, p)
    ]_vars

C4_Witness ==
  /\ page = AdminPage
  /\ admErr.name # "" /\ admErr.email # "" /\ admErr.pass # ""
  /\ admForm.name # <<>> /\ admForm.email # <<>>
  /\ admPending = <<>>
  /\ ~btn

\* C5: a 401 response to a request made through apiFetch removes the session
\* key and makes the login page the navigation target, whatever the handler
\* does next.
C5_UnauthorizedLogsOut ==
  [][\A res \in AdminResponses :
       (AdminResponds(res) /\ res.status = 401)
       => (SessionCleared' /\ location' = LoginPage)]_vars

C5_Witness ==
  /\ page = AdminPage
  /\ session # Null /\ HasToken(session) /\ RoleIsAdmin(session)
  /\ msg = [className |-> "msg bad", text |-> << "No se pudo crear", "401" >>]
  /\ SessionCleared
  /\ location = LoginPage

LoginStepWrites ==
  /\ page = LoginPage /\ page' = LoginPage
  /\ script = "running" /\ script' = "running"
  /\ (localStorage' # localStorage \/ timers' > timers)

LoginFailureShown ==
  /\ localStorage' = localStorage
  /\ timers' = timers
  /\ formMsg'.display = "block"
  /\ formMsg'.text # ""

\* C6: the login page writes the session key and schedules the dashboard
\* redirect only in a submission whose attempt succeeded (demo credentials,
\* or a success status from the API); a failed attempt leaves storage alone,
\* schedules nothing and shows a non-empty error message.
C6_SessionOnlyOnSuccess ==
  [][/\ LoginStepWrites =>
          /\ loginPending # <<>>
          /\ "session" \in DOMAIN localStorage'
          /\ timers' = timers + 1
          /\ loginVersion = "sim" =>
               (Head(loginPending).email = demoEmail
                  /\ Head(loginPending).password = demoPass)
          /\ loginVersion = "api" =>
               \E res \in LoginResponses, remember \in BOOLEAN :
                  OkStatus(res.status) /\ LoginApiResponds(res, remember)
     /\ \A remember \in BOOLEAN :
          (/\ LoginSimWaitDone(remember)
           /\ (Head(loginPending).email # demoEmail
                 \/ Head(loginPending).password # demoPass))
          => LoginFailureShown
     /\ \A res \in LoginResponses, remember \in BOOLEAN :
          (LoginApiResponds(res, remember) /\ ~OkStatus(res.status))
          => LoginFailureShown
     /\ LoginApiRejects => LoginFailureShown
    ]_vars

C6_Witness ==
  /\ page = LoginPage
  /\ "session" \in DOMAIN localStorage
  /\ HasToken(StoredSession)
  /\ timers = 1
  /\ formMsg.ok /\ formMsg.display = "block"
  /\ ~btnLogin

\* C7: an admin page load with a stored session that has a token and whose
\* role is not "admin" alerts, makes the dashboard the navigation target and
\* leaves the stored session in place.
C7_NonAdminGoesToDashboard ==
  [][(AdminLoad /\ HasToken(StoredSession) /\ ~RoleIsAdmin(StoredSession))
       => (/\ alerted'
           /\ location' = DashboardPage
           /\ localStorage' = localStorage)]_vars

C7_Witness ==
  /\ page = AdminPage
  /\ script = "running"
  /\ HasToken(session) /\ ~RoleIsAdmin(session)
  /\ alerted
  /\ location = DashboardPage
  /\ StoredSession = session

\* C8: for a non-success status the login message is the server's detail
\* when the response carries one and the generic fallback otherwise, an
\* empty or unparsable body included.
C8_DetailOrFallback ==
  [][\A res \in LoginResponses, remember \in BOOLEAN :
       (LoginApiResponds(res, remember) /\ ~OkStatus(res.status))
       => formMsg'.text =
            IF /\ res.body \notin {Unparsable, Null}
               /\ "detail" \in DOMAIN res.body
               /\ res.body.detail # ""
            THEN res.body.detail
            ELSE "Email o contrasena incorrectos."]_vars

\* C9: on each form at most one request is in flight, and the submit control
\* is disabled for as long as one is.
C9_OneInFlight ==
  /\ Len(admPending) <= 1
  /\ Len(loginPending) <= 1
  /\ (admPending # <<>> => btn)
  /\ (loginPending # <<>> => btnLogin)

C9_Witness ==
  /\ page = AdminPage
  /\ Len(admPending) = 1
  /\ btn
  /\ location = LoginPage

\* C10: the admin page sends POST /admin/users only in a load that passed
\* the guard (stored session with a token and the role "admin").
C10_RequestOnlyAfterGuard ==
  (page = AdminPage /\ admPending # <<>>)
    => (HasToken(session) /\ RoleIsAdmin(session))

====
